---- MODULE Spec2Model ----
(***************************************************************************)
(* OpenNANORGS assembler backend: Compiler::new and Compiler::compile      *)
(* (src/src/compiler.rs) over a stream of ParserTokens, with the opcode    *)
(* table and is_positional of src/src/tokenizer.rs.                        *)
(*                                                                         *)
(* Words are u16: every arithmetic result is reduced modulo 65536.         *)
(* Addresses are 0-based as in the code; bytecode (a Vec) is a TLA+        *)
(* sequence, so the word at address a is bytecode[a + 1].  The Vec output  *)
(* is held as its length and the words of its written prefix: a word at    *)
(* an address no assignment reached is the 0 that Compiler::new put there. *)
(***************************************************************************)
EXTENDS Integers, Sequences, FiniteSets, TLC

\* ------------------------------------------------------------------ bounds
\* Longest run of records placed before the End marker in a layout stream.
MaxRecords == 3
\* Longest data record of a layout stream.
MaxData == 2
\* Longest run of records placed after the bulk data record.
MaxTail == 2

\* ------------------------------------------------------- program constants
\* compiler.rs:27, output: [0; 3600].to_vec()
ImageSize == 3600
\* u16
WordModulus == 65536

\* ------------------------------------------------------------------- words
RECURSIVE BitAndBits(_, _, _)
BitAndBits(a, b, n) ==
    IF n = 0 THEN 0
    ELSE (IF a % 2 = 1 /\ b % 2 = 1 THEN 1 ELSE 0)
         + 2 * BitAndBits(a \div 2, b \div 2, n - 1)

RECURSIVE BitOrBits(_, _, _)
BitOrBits(a, b, n) ==
    IF n = 0 THEN 0
    ELSE (IF a % 2 = 1 \/ b % 2 = 1 THEN 1 ELSE 0)
         + 2 * BitOrBits(a \div 2, b \div 2, n - 1)

\* u16 & u16
BitAnd(a, b) == BitAndBits(a, b, 16)
\* u16 | u16
BitOr(a, b) == BitOrBits(a, b, 16)
\* u16 << k (bits shifted past bit 15 are lost)
Shl(a, k) == (a * (2 ^ k)) % WordModulus
\* saturating_sub in place of wrapping_sub
WrappingSub_Saturating(a, b) == IF a >= b THEN a - b ELSE 0

\* u16::wrapping_sub
WrappingSub(a, b) == (a - b + WordModulus) % WordModulus

\* ----------------------------------------------------------- opcode table
\* enum InstructionType, #[repr(u16)]
InstructionCode ==
    [NOP |-> 0, MOV |-> 1, PUSH |-> 2, POP |-> 3, CALL |-> 4, RET |-> 5,
     JMP |-> 6, JL |-> 7, JLE |-> 8, JG |-> 9, JGE |-> 10, JE |-> 11,
     JNE |-> 12, JS |-> 13, JNS |-> 14, ADD |-> 15, SUB |-> 16, MULT |-> 17,
     DIV |-> 18, MOD |-> 19, AND |-> 20, OR |-> 21, XOR |-> 22, CMP |-> 23,
     TEST |-> 24, GETXY |-> 25, ENERGY |-> 26, TRAVEL |-> 27, SHL |-> 28,
     SHR |-> 29, SENSE |-> 30, EAT |-> 31, RAND |-> 32, RELEASE |-> 33,
     CHARGE |-> 34, POKE |-> 35, PEEK |-> 36, CKSUM |-> 37]

InstructionType == DOMAIN InstructionCode

\* is_positional with the last arm of its match lost
is_positional_NoJNS(t) ==
    t \in {"CALL", "JMP", "JL", "JLE", "JG", "JGE", "JE", "JNE", "JS"}

\* InstructionType::is_positional
is_positional(t) ==
    t \in {"CALL", "JMP", "JL", "JLE", "JG", "JGE", "JE", "JNE", "JS", "JNS"}

\* ---------------------------------------------------------------- records
\* Value::Number / Value::Label
Number(n) == [t |-> "Number", n |-> n]
Label(l) == [t |-> "Label", l |-> l]

\* Operand::*
NoOperand == [k |-> "None"]
Direct(v) == [k |-> "Direct", v |-> v]
ImmediateValue(v) == [k |-> "ImmediateValue", v |-> v]
Register(r) == [k |-> "Register", r |-> r]
RegisterIndexedDirect(b, s, o) ==
    [k |-> "RegisterIndexedDirect", base |-> b, operator |-> s, offset |-> o]

\* ParserToken::*
Instruction(t, o1, o2) ==
    [tok |-> "Instruction", instruction_type |-> t, operand1 |-> o1, operand2 |-> o2]
Data(vs) == [tok |-> "Data", data |-> vs]
LabelDefinition(name) == [tok |-> "Label", name |-> name]
Metadata == [tok |-> "BotInfo"]
EOF == [tok |-> "EOF"]

\* str::to_lowercase on the label names the streams use
to_lowercase(s) ==
    CASE s = "A" -> "a"
      [] s = "Zz" -> "zz"
      [] OTHER -> s

\* ------------------------------------------------------------ symbol table
\* self.symbol_table.get(&label.to_lowercase()): Some / None
Has(symbol_table, label) == to_lowercase(label) \in DOMAIN symbol_table
Get(symbol_table, label) == symbol_table[to_lowercase(label)]

\* ------------------------------------------------------- operand encoding
\* The (value, offset, carry) an operand leaves in op?_value, op?_offset and
\* op?_carry, or the panic that ends compile while it is evaluated:
\*   unwrap_none      Option::unwrap on a label the symbol table lacks
\*   label_offset     panic!("Label cannot be used as offset")
\*   register_offset  panic!("Register cannot be used as offset")
Encoded(value, offset, carry) ==
    [value |-> value, offset |-> offset, carry |-> carry, fatal |-> "none"]
\* The panic swallowed: the operand is left at its defaults
Aborted_Swallowed(fatal) ==
    [value |-> 0, offset |-> 0, carry |-> FALSE, fatal |-> "none"]

Aborted(fatal) ==
    [value |-> 0, offset |-> 0, carry |-> FALSE, fatal |-> fatal]

IsLabelOperand(op) == op.k = "ImmediateValue" /\ op.v.t = "Label"

\* match op1 { ... }
Operand1(op1, positional, instruction_pointer, symbol_table) ==
    CASE op1.k = "None" -> Encoded(0, 0, FALSE)
      [] op1.k = "Direct" ->
            IF op1.v.t = "Number" THEN Encoded(op1.v.n, 0, FALSE)
            ELSE IF Has(symbol_table, op1.v.l)
                 THEN Encoded(Get(symbol_table, op1.v.l), 0, FALSE)
                 ELSE Aborted("unwrap_none")
      [] op1.k = "ImmediateValue" ->
            IF op1.v.t = "Number"
            THEN Encoded(IF positional
                         THEN WrappingSub(op1.v.n, instruction_pointer)
                         ELSE op1.v.n, 0, FALSE)
            ELSE IF Has(symbol_table, op1.v.l)
                 THEN Encoded(IF positional
                              THEN WrappingSub(Get(symbol_table, op1.v.l),
                                               instruction_pointer)
                              ELSE Get(symbol_table, op1.v.l), 0, FALSE)
                 ELSE Aborted("unwrap_none")
      [] op1.k = "Register" -> Encoded(op1.r, 0, FALSE)
      [] op1.k = "RegisterIndexedDirect" ->
            LET base == op1.base
                offset == op1.offset
                \* match base.as_ref()
                base_offset ==
                    IF IsLabelOperand(base) THEN Get(symbol_table, base.v.l) ELSE 0
                base_value ==
                    IF base.k = "Register" THEN Shl(base.r, 12) ELSE 0
                \* match offset.as_ref()
                op1_offset ==
                    IF offset.k = "ImmediateValue" THEN offset.v.n ELSE base_offset
                op1_value ==
                    IF offset.k = "Register" /\ IsLabelOperand(base)
                    THEN Shl(offset.r, 12)
                    ELSE base_value
                \* match operator
                negate == op1.operator = "Minus" /\ op1_offset > 0
            IN  IF IsLabelOperand(base) /\ ~Has(symbol_table, base.v.l)
                THEN Aborted("unwrap_none")
                ELSE IF IsLabelOperand(offset)
                THEN Aborted("label_offset")
                ELSE IF offset.k = "Register" /\ base.k = "Register"
                THEN Aborted("register_offset")
                ELSE Encoded(op1_value,
                             IF negate THEN WrappingSub(0, op1_offset) ELSE op1_offset,
                             negate)

\* match op2 { ... }
Operand2(op2, positional, instruction_pointer, symbol_table) ==
    CASE op2.k = "None" -> Encoded(0, 0, FALSE)
      [] op2.k = "Direct" ->
            IF op2.v.t = "Number" THEN Encoded(op2.v.n, 0, FALSE)
            ELSE IF Has(symbol_table, op2.v.l)
                 THEN Encoded(Get(symbol_table, op2.v.l), 0, FALSE)
                 ELSE Aborted("unwrap_none")
      [] op2.k = "ImmediateValue" ->
            IF op2.v.t = "Number"
            THEN Encoded(IF positional
                         THEN WrappingSub(op2.v.n, instruction_pointer)
                         ELSE op2.v.n, 0, FALSE)
            ELSE IF Has(symbol_table, op2.v.l)
                 THEN Encoded(IF positional
                              THEN WrappingSub(Get(symbol_table, op2.v.l),
                                               instruction_pointer)
                              ELSE Get(symbol_table, op2.v.l), 0, FALSE)
                 ELSE Aborted("unwrap_none")
      [] op2.k = "Register" -> Encoded(op2.r, 0, FALSE)
      [] op2.k = "RegisterIndexedDirect" ->
            LET base == op2.base
                offset == op2.offset
                \* match base.as_ref()
                base_offset ==
                    IF IsLabelOperand(base) THEN Get(symbol_table, base.v.l) ELSE 0
                base_value ==
                    IF base.k = "Register" THEN Shl(base.r, 12) ELSE 0
                \* match offset.as_ref()
                op2_offset ==
                    IF offset.k = "ImmediateValue" THEN offset.v.n ELSE base_offset
                op2_value ==
                    IF offset.k = "Register" /\ IsLabelOperand(base)
                    THEN Shl(offset.r, 12)
                    ELSE base_value
                \* match operator
                negate == op2.operator = "Minus" /\ op2_offset > 0
            IN  IF IsLabelOperand(base) /\ ~Has(symbol_table, base.v.l)
                THEN Aborted("unwrap_none")
                ELSE IF IsLabelOperand(offset)
                THEN Aborted("label_offset")
                ELSE IF offset.k = "Register" /\ base.k = "Register"
                THEN Aborted("register_offset")
                ELSE Encoded(op2_value,
                             IF negate THEN WrappingSub(0, op2_offset) ELSE op2_offset,
                             negate)

\* u16::from(Operand): the operand's 2-bit addressing-mode code
OperandMode(op) ==
    CASE op.k = "None" -> 0
      [] op.k = "Direct" -> 1
      [] op.k = "ImmediateValue" -> 2
      [] OTHER -> 3

\* get_modes with the two carry masks exchanged
get_modes_CarrySwapped(instruction, op1_carry, op2_carry) ==
    LET value0 == BitOr(Shl(OperandMode(instruction.operand1), 2),
                        OperandMode(instruction.operand2))
        value1 == Shl(value0, 12)
        value2 == IF op1_carry THEN BitOr(value1, 1024) ELSE value1
    IN  IF op2_carry THEN BitOr(value2, 2048) ELSE value2

\* Compiler::get_modes
get_modes(instruction, op1_carry, op2_carry) ==
    LET value0 == BitOr(Shl(OperandMode(instruction.operand1), 2),
                        OperandMode(instruction.operand2))
        value1 == Shl(value0, 12)
        value2 == IF op1_carry THEN BitOr(value1, 2048) ELSE value1
    IN  IF op2_carry THEN BitOr(value2, 1024) ELSE value2

\* let inst = instruction_type as u16 | get_modes(...)
OpcodeWord(instruction, op1_carry, op2_carry) ==
    BitOr(InstructionCode[instruction.instruction_type],
          get_modes(instruction, op1_carry, op2_carry))

\* The operand word without the 12-bit mask on the offset
OperandWord_NoMask(enc) == BitOr(enc.value, enc.offset)

\* op?_value | (op?_offset & 0xFFF)
OperandWord(enc) == BitOr(enc.value, BitAnd(enc.offset, 4095))

\* The alignment loop left out
Pad_NoPadding(st) == st

\* The alignment loop as an if: at most one padding word
Pad_OneWord(st) ==
    IF st.instruction_pointer % 3 # 0
    THEN [bytecode |-> Append(st.bytecode, 0),
          instruction_pointer |-> (st.instruction_pointer + 1) % WordModulus]
    ELSE st

\* The alignment loop pushing a filler other than 0
Pad_Filler(st) ==
    LET p == (3 - (st.instruction_pointer % 3)) % 3
    IN  [bytecode |-> st.bytecode \o [j \in 1..p |-> 65535],
         instruction_pointer |-> (st.instruction_pointer + p) % WordModulus]

\* while (instruction_pointer % 3) != 0 { bytecode.push(0); ... }
RECURSIVE Pad(_)
Pad(st) ==
    IF st.instruction_pointer % 3 # 0
    THEN Pad([bytecode |-> Append(st.bytecode, 0),
              instruction_pointer |-> (st.instruction_pointer + 1) % WordModulus])
    ELSE st

\* --------------------------------------------------------- symbol builder
\* SymbolTable::new: one forward pass assigning each label its word address.
RECURSIVE SymbolWalk(_, _, _, _)
SymbolWalk(stream, i, cursor, table) ==
    IF i > Len(stream) \/ stream[i].tok = "EOF" THEN table
    ELSE LET r == stream[i]
             key == to_lowercase(r.name)
             aligned == IF cursor % 3 # 0 THEN cursor + (3 - (cursor % 3)) ELSE cursor
         IN  CASE r.tok = "Label" ->
                    SymbolWalk(stream, i + 1, cursor,
                               [n \in DOMAIN table \cup {key} |->
                                    IF n = key THEN cursor ELSE table[n]])
               [] r.tok = "Instruction" ->
                    SymbolWalk(stream, i + 1, (aligned + 3) % WordModulus, table)
               [] r.tok = "Data" ->
                    SymbolWalk(stream, i + 1, (cursor + Len(r.data)) % WordModulus, table)
               [] OTHER -> SymbolWalk(stream, i + 1, cursor, table)

label_to_address(stream) == SymbolWalk(stream, 1, 0, [n \in {} |-> 0])

\* ---------------------------------------------------------------- streams
SeqsUpTo(S, n) == UNION {[1..k -> S] : k \in 0..n}

DefinedOnce(stream) ==
    \A i, j \in 1..Len(stream) :
        (stream[i].tok = "Label" /\ stream[j].tok = "Label"
         /\ to_lowercase(stream[i].name) = to_lowercase(stream[j].name)) => i = j

\* Layout streams: instructions, data records of 1..MaxData values, a label
\* definition and a metadata record in every order, then the End marker.
\* The label is referenced in another case ("A") than it is defined in ("a");
\* where it is not defined the reference is unresolved.
DataRecords ==
    {Data([i \in 1..n |-> IF i = n /\ withLabel THEN Label("A") ELSE Number(i)]) :
        n \in 1..MaxData, withLabel \in BOOLEAN}

LayoutRecords ==
    {Instruction("NOP", NoOperand, NoOperand),
     Instruction("JMP", ImmediateValue(Label("A")), NoOperand),
     LabelDefinition("a"),
     Metadata} \cup DataRecords

LayoutStreams ==
    {s \o <<EOF>> : s \in {t \in SeqsUpTo(LayoutRecords, MaxRecords) : DefinedOnce(t)}}

\* Operand streams: one instruction, at address 0 or (behind one data word
\* and the definition of label a, so that a = 1) at address 3.
Bases ==
    {Register(2), Register(15), ImmediateValue(Label("a")),
     ImmediateValue(Label("zz")), ImmediateValue(Number(5))}
Offsets ==
    {ImmediateValue(Number(0)), ImmediateValue(Number(5)),
     ImmediateValue(Number(4101)), Register(3), ImmediateValue(Label("a"))}
IndexedOperands ==
    {RegisterIndexedDirect(b, s, o) : b \in Bases, s \in {"Plus", "Minus"}, o \in Offsets}
SimpleOperands ==
    {NoOperand, Direct(Number(5)), Direct(Label("a")), Direct(Label("zz")),
     ImmediateValue(Number(0)), ImmediateValue(Number(5)),
     ImmediateValue(Label("A")), ImmediateValue(Label("Zz")),
     Register(2), Register(15)}
AllOperands == SimpleOperands \cup IndexedOperands
FewOperands ==
    {NoOperand, Direct(Number(5)), ImmediateValue(Number(5)),
     ImmediateValue(Label("a")), Register(2),
     RegisterIndexedDirect(Register(2), "Minus", ImmediateValue(Number(5)))}

OperandInstructions ==
    {Instruction(t, o1, o2) : t \in InstructionType, o1 \in FewOperands, o2 \in FewOperands}
    \cup {Instruction(t, o1, o2) : t \in {"MOV", "JMP"}, o1 \in AllOperands, o2 \in FewOperands}
    \cup {Instruction(t, o1, o2) : t \in {"MOV", "JMP"}, o1 \in FewOperands, o2 \in AllOperands}

OperandPrefixes == {<<>>, <<Data(<<Number(1)>>), LabelDefinition("a")>>}

OperandStreams ==
    {p \o <<i, EOF>> : p \in OperandPrefixes, i \in OperandInstructions}

\* Capacity streams: a data record two words short of the image, then up to
\* MaxTail more records, so that the program ends below, at and above
\* ImageSize words.
BulkData == Data([i \in 1..(ImageSize - 2) |-> Number(9)])
TailRecords ==
    {Instruction("NOP", NoOperand, NoOperand), Data(<<Number(7)>>),
     Data(<<Number(7), Number(8)>>)}
CapacityStreams ==
    {<<BulkData>> \o t \o <<EOF>> : t \in SeqsUpTo(TailRecords, MaxTail)}

Streams == LayoutStreams \cup OperandStreams \cup CapacityStreams

\* ------------------------------------------------------------------ image
\* [0; 3600].to_vec()
ZeroImage == [len |-> ImageSize, words |-> <<>>]

\* image[a]
WordAt(image, a) == IF a < Len(image.words) THEN image.words[a + 1] ELSE 0

\* The copy loop stopping one word early
Assigned_OneShort(image, words) ==
    LET n == IF Len(words) < image.len THEN Len(words) ELSE image.len
        m == IF n < Len(image.words) THEN Len(image.words) ELSE n
    IN  [image EXCEPT !.words = [i \in 1..m |-> IF i < n THEN words[i]
                                                ELSE IF i <= Len(image.words)
                                                     THEN image.words[i] ELSE 0]]

\* image[pos] = word for pos = 0, 1, ... over the words, up to the first pos
\* that is out of bounds
Assigned(image, words) ==
    LET n == IF Len(words) < image.len THEN Len(words) ELSE image.len
        m == IF n < Len(image.words) THEN Len(image.words) ELSE n
    IN  [image EXCEPT !.words = [i \in 1..m |-> IF i <= n THEN words[i]
                                                          ELSE image.words[i]]]

\* ------------------------------------------------------------------ state
VARIABLES
    input,                \* Compiler.input
    symbol_table,         \* Compiler.symbol_table
    output,               \* Compiler.output
    position,             \* Compiler.position
    read_position,        \* Compiler.read_position
    instruction,          \* Compiler.instruction
    pc,                   \* ready | encode | done | panicked
    token,                \* compile: index (1-based) of the loop's token
    bytecode,             \* compile: local bytecode
    instruction_pointer,  \* compile: local instruction_pointer
    fatal                 \* the panic that ended compile, or "none"

\* The front end's state: the Tokenizer struct (position, read_position,
\* char, input, preread), tokenize's tokens, the locals of read_ident,
\* read_bot_info and read_int, and the place the tokenizer is at.
VARIABLES tokenizer, tokens, ident, bot_info, pos, at

tokenizing == <<tokenizer, tokens, ident, bot_info, pos, at>>

vars == <<input, symbol_table, output, position, read_position, instruction,
          pc, token, bytecode, instruction_pointer, fatal,
          tokenizer, tokens, ident, bot_info, pos, at>>

\* The tokenizer when the compiler runs: tokenize has returned
Tokenized ==
    /\ tokenizer = [position |-> 0, read_position |-> 1, char |-> 0,
                    input |-> <<>>, preread |-> FALSE]
    /\ tokens = <<[kind |-> "EOF"]>>
    /\ ident = <<>>
    /\ bot_info = <<>>
    /\ pos = 0
    /\ at = "returned"

compiler == <<input, symbol_table, position, read_position, instruction>>

\* Compiler::new (with its read_instruction), on the stream and the table
\* new_from_file hands it
Init ==
    /\ input \in Streams
    /\ symbol_table = label_to_address(input)
    /\ output = ZeroImage
    /\ instruction = input[1]
    /\ position = 0
    /\ read_position = 1
    /\ pc = "ready"
    /\ token = 1
    /\ bytecode = <<>>
    /\ instruction_pointer = 0
    /\ fatal = "none"
    /\ Tokenized

\* compile is entered: let mut bytecode = vec![]; let mut instruction_pointer = 0;
Compile ==
    /\ pc \in {"ready", "done"}
    /\ pc' = "encode"
    /\ token' = 1
    /\ bytecode' = <<>>
    /\ instruction_pointer' = 0
    /\ UNCHANGED <<tokenizing, compiler, output, fatal>>

Panic(kind) ==
    /\ pc' = "panicked"
    /\ fatal' = kind

\* ParserToken::Instruction(instruction) => { ... }
EncodeInstruction ==
    /\ pc = "encode"
    /\ token <= Len(input)
    /\ input[token].tok = "Instruction"
    /\ LET padded == Pad([bytecode |-> bytecode,
                          instruction_pointer |-> instruction_pointer])
           positional == is_positional(input[token].instruction_type)
           op1 == Operand1(input[token].operand1, positional,
                           padded.instruction_pointer, symbol_table)
           op2 == Operand2(input[token].operand2, positional,
                           padded.instruction_pointer, symbol_table)
       IN  IF op1.fatal # "none"
           THEN /\ Panic(op1.fatal)
                /\ bytecode' = padded.bytecode
                /\ instruction_pointer' = padded.instruction_pointer
                /\ UNCHANGED token
           ELSE IF op2.fatal # "none"
           THEN /\ Panic(op2.fatal)
                /\ bytecode' = padded.bytecode
                /\ instruction_pointer' = padded.instruction_pointer
                /\ UNCHANGED token
           ELSE /\ bytecode' = padded.bytecode \o
                        <<OpcodeWord(input[token], op1.carry, op2.carry),
                          OperandWord(op1), OperandWord(op2)>>
                /\ instruction_pointer' = (padded.instruction_pointer + 3) % WordModulus
                /\ token' = token + 1
                /\ UNCHANGED <<pc, fatal>>
    /\ UNCHANGED <<tokenizing, compiler, output>>

\* unwrap_or_default in place of unwrap: an absent label becomes the word 0
Resolved_Defaulted(data, table) ==
    [i \in 1..Len(data) |->
        IF data[i].t = "Number" THEN data[i].n
        ELSE IF Has(table, data[i].l) THEN Get(table, data[i].l) ELSE 0]

\* Data words masked to 12 bits, as operand offsets are
Resolved_Masked(data, table) ==
    [i \in 1..Len(data) |->
        IF data[i].t = "Number" THEN data[i].n % 4096
        ELSE IF Has(table, data[i].l) THEN Get(table, data[i].l) % 4096 ELSE 0]

\* The words a data record pushes: its values, resolved, up to (not including)
\* the first label the symbol table lacks, where unwrap panics
Resolved(data, table) ==
    LET missing == {i \in 1..Len(data) :
                        data[i].t = "Label" /\ ~Has(table, data[i].l)}
        n == IF missing = {}
             THEN Len(data)
             ELSE (CHOOSE i \in missing : \A j \in missing : i <= j) - 1
    IN  [i \in 1..n |-> IF data[i].t = "Number"
                        THEN data[i].n
                        ELSE Get(table, data[i].l)]

\* ParserToken::Data(data) => { for value in data { ... } }
EncodeData ==
    /\ pc = "encode"
    /\ token <= Len(input)
    /\ input[token].tok = "Data"
    /\ LET words == Resolved(input[token].data, symbol_table)
       IN  /\ bytecode' = bytecode \o words
           /\ instruction_pointer' = (instruction_pointer + Len(words)) % WordModulus
           /\ IF Len(words) < Len(input[token].data)
              THEN Panic("unwrap_none") /\ UNCHANGED token
              ELSE token' = token + 1 /\ UNCHANGED <<pc, fatal>>
    /\ UNCHANGED <<tokenizing, compiler, output>>

\* _ => {}
SkipToken ==
    /\ pc = "encode"
    /\ token <= Len(input)
    /\ input[token].tok \notin {"Instruction", "Data"}
    /\ token' = token + 1
    /\ UNCHANGED <<tokenizing, compiler, output, pc, bytecode, instruction_pointer, fatal>>

\* for (pos, word) in bytecode.iter().enumerate() { self.output[pos] = *word; }
\* Indexing output at pos = output.len() panics, after the words before it
\* were assigned.
CopyOut ==
    /\ pc = "encode"
    /\ token > Len(input)
    /\ output' = Assigned(output, bytecode)
    /\ IF Len(bytecode) > output.len
       THEN Panic("index_out_of_bounds")
       ELSE pc' = "done" /\ UNCHANGED fatal
    /\ UNCHANGED <<tokenizing, compiler, token, bytecode, instruction_pointer>>

Next == Compile \/ EncodeInstruction \/ EncodeData \/ SkipToken \/ CopyOut

Spec == Init /\ [][Next]_vars

TypeOK ==
    /\ pc \in {"ready", "encode", "done", "panicked"}
    /\ Len(output.words) <= output.len
    /\ \A i \in 1..Len(bytecode) : bytecode[i] \in 0..(WordModulus - 1)
    /\ instruction_pointer \in 0..(WordModulus - 1)

\* ================================================================ claims
\* The record the loop is at, and the instruction it has just encoded: after
\* a successful EncodeInstruction the last three words of bytecode are that
\* instruction's and its opcode word is at address Len(bytecode) - 3.
AtRecord == pc = "encode" /\ token <= Len(input)
JustEncoded ==
    pc = "encode" /\ token > 1 /\ input[token - 1].tok = "Instruction"
EncodedAddress == Len(bytecode) - 3
EncodedOpcodeWord == bytecode[EncodedAddress + 1]
EncodedWord1 == bytecode[EncodedAddress + 2]
EncodedWord2 == bytecode[EncodedAddress + 3]

\* ---------------------------------------------------------------------
\* C1 (pass agreement): whenever the encoder is at a label definition
\* marker, the address the symbol table builder recorded for that label is
\* the encoder's instruction_pointer.
C1_PassAgreement ==
    (AtRecord /\ input[token].tok = "Label") =>
        /\ Has(symbol_table, input[token].name)
        /\ Get(symbol_table, input[token].name) = instruction_pointer

\* The encoder is at a label that follows an instruction which itself
\* followed data and was padded: the label's address is 6, not 4.
C1_Witness ==
    /\ AtRecord /\ input[token].tok = "Label"
    /\ token = 3
    /\ input[1].tok = "Data" /\ Len(input[1].data) = 1
    /\ input[2].tok = "Instruction"
    /\ instruction_pointer = 6

\* ---------------------------------------------------------------------
\* C2 (alignment and slot size): encoding an instruction keeps the words
\* emitted so far and ends with exactly three new words, the opcode word
\* (carrying the instruction's opcode) at an address divisible by 3 followed
\* by the two operand words, at most two padding words before them; a data
\* record adds exactly one word per value.
C2_SlotStep ==
    /\ (AtRecord /\ input[token].tok = "Instruction" /\ pc' = "encode") =>
          LET A == Len(bytecode') - 3
          IN  /\ A % 3 = 0
              /\ A >= Len(bytecode) /\ A - Len(bytecode) <= 2
              /\ SubSeq(bytecode', 1, Len(bytecode)) = bytecode
              /\ bytecode'[A + 1] % 1024 = InstructionCode[input[token].instruction_type]
              /\ bytecode'[A + 2] =
                    OperandWord(Operand1(input[token].operand1,
                                         is_positional(input[token].instruction_type),
                                         A, symbol_table))
              /\ bytecode'[A + 3] =
                    OperandWord(Operand2(input[token].operand2,
                                         is_positional(input[token].instruction_type),
                                         A, symbol_table))
              /\ instruction_pointer' = A + 3
    /\ (AtRecord /\ input[token].tok = "Data" /\ pc' = "encode") =>
          /\ Len(bytecode') = Len(bytecode) + Len(input[token].data)
          /\ SubSeq(bytecode', 1, Len(bytecode)) = bytecode

C2_AlignmentAndSlot == [][C2_SlotStep]_vars

\* An instruction has been encoded at address 6 behind four data words.
C2_Witness ==
    /\ JustEncoded
    /\ EncodedAddress = 6
    /\ \E i \in 1..(token - 2) : input[i].tok = "Data" /\ Len(input[i].data) = 2
    /\ Cardinality({i \in 1..(token - 2) : input[i].tok = "Data"}) = 2

\* ---------------------------------------------------------------------
\* C3 (relative displacement): in the instruction just encoded at address
\* A, an Immediate operand x (a number, or a label's address) of a
\* positional opcode is emitted as v = (x - A) mod 65536, so that
\* (v + A) mod 65536 = x; an Immediate operand of any other opcode, and a
\* Direct or Register operand of any opcode, is emitted unchanged, and an
\* indexed operand is emitted as it is under a non-positional opcode at
\* address 0.
Positional10 == {"CALL", "JMP", "JL", "JLE", "JG", "JGE", "JE", "JNE", "JS", "JNS"}

ValueOf(v) == IF v.t = "Number" THEN v.n ELSE Get(symbol_table, v.l)

C3_OperandOk(op, t, A, v, plain) ==
    CASE op.k = "ImmediateValue" /\ t \in Positional10 ->
            /\ v = (ValueOf(op.v) - A) % 65536
            /\ (v + A) % 65536 = ValueOf(op.v)
      [] op.k = "ImmediateValue" /\ t \notin Positional10 -> v = ValueOf(op.v)
      [] op.k = "Direct" -> v = ValueOf(op.v)
      [] op.k = "Register" -> v = op.r
      [] op.k = "RegisterIndexedDirect" -> v = plain
      [] OTHER -> v = 0

C3_RelativeDisplacement ==
    JustEncoded =>
        /\ C3_OperandOk(input[token - 1].operand1, input[token - 1].instruction_type,
                        EncodedAddress, EncodedWord1,
                        OperandWord(Operand1(input[token - 1].operand1, FALSE, 0,
                                             symbol_table)))
        /\ C3_OperandOk(input[token - 1].operand2, input[token - 1].instruction_type,
                        EncodedAddress, EncodedWord2,
                        OperandWord(Operand2(input[token - 1].operand2, FALSE, 0,
                                             symbol_table)))

\* JNS to label a (address 1) encoded at address 3: the displacement wraps
\* to 65534.
C3_Witness ==
    /\ JustEncoded
    /\ input[token - 1].instruction_type = "JNS"
    /\ input[token - 1].operand1 = ImmediateValue(Label("a"))
    /\ EncodedAddress = 3
    /\ EncodedWord1 = 65534

\* ---------------------------------------------------------------------
\* C4 (negative offset encoding): in the instruction just encoded, an
\* operand [Register r, sign, Number k] is emitted as r * 4096 + off mod
\* 4096 (the two fields do not overlap), off being k for Plus or k = 0 and
\* (0 - k) mod 65536 for Minus and k # 0, and the operand's carry bit of
\* the opcode word (bit 11 for operand 1, bit 10 for operand 2) is set
\* exactly when the sign is Minus and k # 0.
IsRegisterNumber(op) ==
    /\ op.k = "RegisterIndexedDirect"
    /\ op.base.k = "Register"
    /\ op.offset.k = "ImmediateValue" /\ op.offset.v.t = "Number"

C4_OperandOk(op, word, carryBit) ==
    IsRegisterNumber(op) =>
        LET k == op.offset.v.n
            negated == op.operator = "Minus" /\ k # 0
            off == IF negated THEN (0 - k) % 65536 ELSE k
        IN  /\ word = op.base.r * 4096 + (off % 4096)
            /\ carryBit = (IF negated THEN 1 ELSE 0)

C4_NegativeOffset ==
    JustEncoded =>
        /\ C4_OperandOk(input[token - 1].operand1, EncodedWord1,
                        (EncodedOpcodeWord \div 2048) % 2)
        /\ C4_OperandOk(input[token - 1].operand2, EncodedWord2,
                        (EncodedOpcodeWord \div 1024) % 2)

\* [r2 - 4101] as operand 2: offset (0 - 4101) mod 65536 = 61435, whose low
\* 12 bits are 4091, under register 2, with carry 2 set and carry 1 unset.
C4_Witness ==
    /\ JustEncoded
    /\ input[token - 1].operand2 =
          RegisterIndexedDirect(Register(2), "Minus", ImmediateValue(Number(4101)))
    /\ EncodedWord2 = 2 * 4096 + 4091
    /\ (EncodedOpcodeWord \div 1024) % 2 = 1
    /\ (EncodedOpcodeWord \div 2048) % 2 = 0

\* ---------------------------------------------------------------------
\* C5 (opcode word layout): the opcode word of the instruction just encoded
\* is the sum of its disjoint fields, opcode + mode1 * 2^14 + mode2 * 2^12 +
\* carry1 * 2^11 + carry2 * 2^10, and each field is read back from the word
\* alone (the opcode as word mod 1024).
C5_OpcodeWordLayout ==
    JustEncoded =>
        LET i == input[token - 1]
            positional == is_positional(i.instruction_type)
            c1 == IF Operand1(i.operand1, positional, EncodedAddress, symbol_table).carry
                  THEN 1 ELSE 0
            c2 == IF Operand2(i.operand2, positional, EncodedAddress, symbol_table).carry
                  THEN 1 ELSE 0
            w == EncodedOpcodeWord
        IN  /\ w = InstructionCode[i.instruction_type]
                   + OperandMode(i.operand1) * 16384
                   + OperandMode(i.operand2) * 4096
                   + c1 * 2048 + c2 * 1024
            /\ w % 1024 = InstructionCode[i.instruction_type]
            /\ w \div 16384 = OperandMode(i.operand1)
            /\ (w \div 4096) % 4 = OperandMode(i.operand2)
            /\ (w \div 2048) % 2 = c1
            /\ (w \div 1024) % 2 = c2

\* CKSUM (opcode 37) with a register operand and a negated indexed operand:
\* 37 + 3 * 2^14 + 3 * 2^12 + 2^10.
C5_Witness ==
    /\ JustEncoded
    /\ input[token - 1].instruction_type = "CKSUM"
    /\ input[token - 1].operand1 = Register(2)
    /\ input[token - 1].operand2 =
          RegisterIndexedDirect(Register(2), "Minus", ImmediateValue(Number(5)))
    /\ EncodedOpcodeWord = 37 + 49152 + 12288 + 1024

\* ---------------------------------------------------------------------
\* C6 (capacity) as claimed: once compile has ended on a program of more
\* than ImageSize words it has panicked on the capacity and the image holds
\* none of the program's words.
C6_NoPartialImage ==
    (pc \in {"done", "panicked"} /\ Len(bytecode) > ImageSize) =>
        /\ pc = "panicked"
        /\ fatal = "index_out_of_bounds"
        /\ output = ZeroImage

\* ---------------------------------------------------------------------
\* References to labels the symbol table lacks, and indexed operands with
\* no valid encoding.
AbsentLabel(v) == v.t = "Label" /\ ~Has(symbol_table, v.l)

OperandRefsAbsent(op) ==
    \/ op.k \in {"Direct", "ImmediateValue"} /\ AbsentLabel(op.v)
    \/ /\ op.k = "RegisterIndexedDirect"
       /\ op.base.k = "ImmediateValue" /\ AbsentLabel(op.base.v)

RecordRefsAbsent(r) ==
    \/ /\ r.tok = "Instruction"
       /\ OperandRefsAbsent(r.operand1) \/ OperandRefsAbsent(r.operand2)
    \/ /\ r.tok = "Data"
       /\ \E i \in 1..Len(r.data) : AbsentLabel(r.data[i])

InvalidOffset(op) ==
    /\ op.k = "RegisterIndexedDirect"
    /\ \/ IsLabelOperand(op.offset)
       \/ op.offset.k = "Register" /\ op.base.k = "Register"

RecordInvalidOffset(r) ==
    /\ r.tok = "Instruction"
    /\ InvalidOffset(r.operand1) \/ InvalidOffset(r.operand2)

UnresolvedSymbol == {"unwrap_none"}
InvalidAddressing == {"label_offset", "register_offset"}

\* The words the failing record left in bytecode: for an instruction only
\* the alignment padding, for a data record only the values that precede
\* its first absent label.
NothingEmittedForFailure ==
    /\ SubSeq(bytecode', 1, Len(bytecode)) = bytecode
    /\ input[token].tok = "Instruction" =>
          /\ Len(bytecode') = Len(bytecode) + ((3 - (Len(bytecode) % 3)) % 3)
          /\ \A j \in (Len(bytecode) + 1)..Len(bytecode') : bytecode'[j] = 0
    /\ input[token].tok = "Data" =>
          /\ Len(bytecode') < Len(bytecode) + Len(input[token].data)
          /\ AbsentLabel(input[token].data[Len(bytecode') - Len(bytecode) + 1])

AbortsHere ==
    /\ pc' = "panicked"
    /\ token' = token
    /\ output' = ZeroImage
    /\ NothingEmittedForFailure

\* Nothing follows a panic.
PanicIsFinal == pc = "panicked" => UNCHANGED vars

\* The fault the record at the loop meets first: operand 1 before operand
\* 2, and within an indexed operand the base's label before the offset.
OperandFault(op) ==
    IF OperandRefsAbsent(op) THEN UnresolvedSymbol
    ELSE IF InvalidOffset(op) THEN InvalidAddressing
    ELSE {}

FirstFault(r) ==
    IF r.tok = "Data" THEN UnresolvedSymbol
    ELSE IF OperandFault(r.operand1) # {} THEN OperandFault(r.operand1)
    ELSE OperandFault(r.operand2)

\* C7 (fatal on missing symbol) as claimed: a record that names an absent
\* label aborts compile at that record with UnresolvedSymbol.
C7_OriginalStep ==
    /\ (AtRecord /\ RecordRefsAbsent(input[token])) =>
          AbortsHere /\ fatal' \in UnresolvedSymbol
    /\ PanicIsFinal

C7_Original == [][C7_OriginalStep]_vars

\* C7 as amended: a record that names an absent label aborts compile at
\* that record, emitting no word for the reference and leaving the image
\* untouched, and nothing is encoded after it; the condition is
\* UnresolvedSymbol unless operand 1 names no absent label and is an
\* indexed operand with an invalid offset, which raises InvalidAddressing
\* before operand 2's label is looked up.
C7_AmendedStep ==
    /\ (AtRecord /\ RecordRefsAbsent(input[token])) =>
          /\ AbortsHere
          /\ fatal' \in FirstFault(input[token])
          /\ (input[token].tok = "Data" \/ ~InvalidOffset(input[token].operand1)
              \/ OperandRefsAbsent(input[token].operand1))
                => fatal' \in UnresolvedSymbol
    /\ PanicIsFinal

C7_FatalOnMissingSymbol == [][C7_AmendedStep]_vars

\* compile has aborted with UnresolvedSymbol on a data record whose second
\* value names the absent label, after an earlier record was encoded: the
\* first value is in bytecode, no word stands for the label, the image is
\* untouched.
C7_Witness ==
    /\ pc = "panicked" /\ fatal = "unwrap_none"
    /\ token > 1 /\ input[1].tok = "Instruction"
    /\ input[token].tok = "Data" /\ Len(input[token].data) = 2
    /\ AbsentLabel(input[token].data[2])
    /\ bytecode[Len(bytecode)] = 1 /\ Len(bytecode) = 4
    /\ output = ZeroImage

\* ---------------------------------------------------------------------
\* C8 (invalid addressing is fatal) as claimed: an instruction with an
\* indexed operand whose offset is a label, or a register on a register
\* base, aborts compile with InvalidAddressing and emits no operand word.
C8_OriginalStep ==
    (AtRecord /\ RecordInvalidOffset(input[token])) =>
        AbortsHere /\ fatal' \in InvalidAddressing

C8_Original == [][C8_OriginalStep]_vars

\* C8 as amended: such an instruction aborts compile and emits no operand
\* word; the condition is InvalidAddressing unless a label absent from the
\* symbol table is looked up before the invalid offset is met (the
\* operand's own base, or a label of operand 1 when the invalid operand is
\* operand 2), in which case it is UnresolvedSymbol.
C8_AmendedStep ==
    (AtRecord /\ RecordInvalidOffset(input[token])) =>
        /\ AbortsHere
        /\ fatal' \in FirstFault(input[token])
        /\ ~RecordRefsAbsent(input[token]) => fatal' \in InvalidAddressing
        /\ (InvalidOffset(input[token].operand1)
            /\ ~OperandRefsAbsent(input[token].operand1)) =>
              fatal' = (IF IsLabelOperand(input[token].operand1.offset)
                        THEN "label_offset" ELSE "register_offset")

C8_InvalidAddressing == [][C8_AmendedStep]_vars

\* compile has aborted on [r2 + r3] in operand 2, behind one data word: the
\* two padding words are all the instruction left.
C8_Witness ==
    /\ pc = "panicked" /\ fatal = "register_offset"
    /\ input[token].tok = "Instruction"
    /\ input[token].operand1 = Register(2)
    /\ input[token].operand2 =
          RegisterIndexedDirect(Register(2), "Plus", Register(3))
    /\ bytecode = <<1, 0, 0>>
    /\ output = ZeroImage

\* ---------------------------------------------------------------------
\* C9 (image shape): the image always has ImageSize words, and whenever
\* compile has returned, the words emitted are at addresses 0 .. w - 1 in
\* the order emitted and every address from w on holds 0.
C9_ImageShape ==
    /\ output.len = ImageSize
    /\ Len(output.words) <= output.len
    /\ pc = "done" =>
          /\ Len(bytecode) <= ImageSize
          /\ \A a \in 0..(ImageSize - 1) :
                WordAt(output, a) = IF a < Len(bytecode) THEN bytecode[a + 1] ELSE 0

\* compile has returned on a program that fills the image exactly: the last
\* address holds the last data word.
C9_Witness ==
    /\ pc = "done"
    /\ Len(bytecode) = ImageSize
    /\ WordAt(output, ImageSize - 1) = 7
    /\ WordAt(output, 0) = 9

\* ---------------------------------------------------------------------
\* C10 (padding): with c the cursor when an instruction record is reached,
\* exactly (3 - c mod 3) mod 3 words, all 0, are emitted before its opcode
\* word; a data record's values are emitted straight after the words before
\* them with nothing added behind, and any other record emits nothing.
C10_PaddingStep ==
    AtRecord =>
        /\ instruction_pointer = Len(bytecode)
        /\ SubSeq(bytecode', 1, Len(bytecode)) = bytecode
        /\ input[token].tok = "Instruction" =>
              LET c == instruction_pointer
                  p == (3 - (c % 3)) % 3
              IN  /\ Len(bytecode') = c + p + (IF pc' = "encode" THEN 3 ELSE 0)
                  /\ \A j \in 1..p : bytecode'[c + j] = 0
                  /\ pc' = "encode" =>
                        bytecode'[c + p + 1] % 1024 =
                            InstructionCode[input[token].instruction_type]
        /\ (input[token].tok = "Data" /\ pc' = "encode") =>
              /\ Len(bytecode') = Len(bytecode) + Len(input[token].data)
              /\ \A j \in 1..Len(input[token].data) :
                    bytecode'[Len(bytecode) + j] = ValueOf(input[token].data[j])
        /\ input[token].tok \notin {"Instruction", "Data"} => bytecode' = bytecode

C10_Padding == [][C10_PaddingStep]_vars

\* Data([1]) immediately followed by NOP: two zero words, NOP at address 3.
C10_Witness ==
    /\ input = <<Data(<<Number(1)>>), Instruction("NOP", NoOperand, NoOperand), EOF>>
    /\ pc = "done"
    /\ bytecode = <<1, 0, 0, 0, 0, 0>>

\* ================================================ streams given to new
\* Compiler::new is public: it takes any Vec<ParserToken>, not only what
\* new_from_file builds.  SpecDirect runs compile on three more families.

\* Data streams: a data record of 1..MaxData values (numbers up to 65535 and
\* labels in both cases) behind nothing, behind a prefix that puts label
\* loop at address 10 and label a at 0, or behind one that puts both at 1,
\* and followed by the End marker or by a metadata record, a label
\* definition and an instruction.
DataValues ==
    {Number(5), Number(4101), Number(65535), Label("loop"), Label("A")}
PassthroughRecords ==
    {Data(vs) : vs \in (SeqsUpTo(DataValues, MaxData) \ {<<>>})}
DataPrefixes ==
    {<<>>,
     <<LabelDefinition("a"), Instruction("NOP", NoOperand, NoOperand),
       Instruction("NOP", NoOperand, NoOperand),
       Instruction("NOP", NoOperand, NoOperand),
       Data(<<Number(1)>>), LabelDefinition("loop")>>,
     <<Data(<<Number(1)>>), LabelDefinition("a"), LabelDefinition("loop")>>}
DataSuffixes ==
    {<<EOF>>,
     <<Metadata, LabelDefinition("b"),
       Instruction("NOP", NoOperand, NoOperand), EOF>>}
DataStreams ==
    {p \o <<d>> \o q : p \in DataPrefixes, d \in PassthroughRecords, q \in DataSuffixes}

\* End streams: records on both sides of a first End marker.
EndRecords ==
    {Instruction("NOP", NoOperand, NoOperand), Data(<<Number(7)>>)}
EndStreams ==
    {s \o <<EOF>> \o t \o <<EOF>> :
        s \in SeqsUpTo(EndRecords, 1), t \in (SeqsUpTo(EndRecords, 2) \ {<<>>})}

\* Label-indexed streams: one instruction with an indexed operand whose base
\* is a label, the label being at address 0 or at address 1.
LabelIndexedOperands ==
    {RegisterIndexedDirect(ImmediateValue(Label(l)), s, o) :
        l \in {"a", "A"}, s \in {"Plus", "Minus"},
        o \in {ImmediateValue(Number(0)), ImmediateValue(Number(5)),
               ImmediateValue(Number(4101)), Register(3), Register(15)}}
LabelIndexedInstructions ==
    {Instruction(t, o1, o2) : t \in {"MOV", "JMP"}, o1 \in LabelIndexedOperands,
                              o2 \in {NoOperand, Register(2)}}
    \cup {Instruction(t, o1, o2) : t \in {"MOV", "JMP"}, o1 \in {NoOperand, Register(2)},
                                   o2 \in LabelIndexedOperands}
LabelIndexedStreams ==
    {p \o <<i, EOF>> :
        p \in {<<LabelDefinition("a")>>, <<Data(<<Number(1)>>), LabelDefinition("a")>>},
        i \in LabelIndexedInstructions}

DirectStreams == DataStreams \cup EndStreams \cup LabelIndexedStreams

\* Compiler::new on a stream of DirectStreams
InitDirect ==
    /\ input \in DirectStreams
    /\ symbol_table = label_to_address(input)
    /\ output = ZeroImage
    /\ instruction = input[1]
    /\ position = 0
    /\ read_position = 1
    /\ pc = "ready"
    /\ token = 1
    /\ bytecode = <<>>
    /\ instruction_pointer = 0
    /\ fatal = "none"
    /\ Tokenized

SpecDirect == InitDirect /\ [][Next]_vars

\* ---------------------------------------------------------------------
\* C11 (data passthrough): a data record of n values whose labels are all
\* defined appends exactly its n values to the words emitted so far, a
\* number as it is and a label as its address, neither displaced nor
\* masked, and advances the cursor by n; a label definition, a metadata
\* record and the End marker append nothing and leave the cursor alone.
C11_PassthroughStep ==
    /\ (AtRecord /\ input[token].tok = "Data"
        /\ ~RecordRefsAbsent(input[token])) =>
          LET data == input[token].data
          IN  /\ pc' = "encode" /\ token' = token + 1
              /\ bytecode' = bytecode \o
                    [j \in 1..Len(data) |->
                        IF data[j].t = "Number" THEN data[j].n
                        ELSE symbol_table[to_lowercase(data[j].l)]]
              /\ instruction_pointer' = instruction_pointer + Len(data)
    /\ (AtRecord /\ input[token].tok \in {"Label", "BotInfo", "EOF"}) =>
          /\ bytecode' = bytecode
          /\ instruction_pointer' = instruction_pointer
          /\ token' = token + 1

C11_DataPassthrough == [][C11_PassthroughStep]_vars

\* Data([Number(5), Label("loop")]) with loop at 10 has been encoded at
\* address 10 as the words 5, 10, and the records behind it add 3 words.
C11_Witness ==
    /\ pc = "done"
    /\ Len(input) = 11
    /\ input[7] = Data(<<Number(5), Label("loop")>>)
    /\ symbol_table["loop"] = 10
    /\ bytecode[11] = 5 /\ bytecode[12] = 10
    /\ Len(bytecode) = 15

\* ---------------------------------------------------------------------
\* C12 (the End marker terminates the encoding pass) as claimed: once the
\* loop is past an End marker no record adds a word or moves the cursor.
C12_EndStep ==
    (AtRecord /\ \E i \in 1..(token - 1) : input[i].tok = "EOF") =>
        /\ bytecode' = bytecode
        /\ instruction_pointer' = instruction_pointer

C12_EndTerminates == [][C12_EndStep]_vars

\* ---------------------------------------------------------------------
\* C13 (a label targets the instruction behind it) as claimed: the address
\* recorded for a label whose definition is immediately followed by an
\* instruction is the address of that instruction's opcode word.
C13_LabelTargetsInstruction ==
    (JustEncoded /\ token > 2 /\ input[token - 2].tok = "Label") =>
        /\ Has(symbol_table, input[token - 2].name)
        /\ Get(symbol_table, input[token - 2].name) = EncodedAddress
        /\ Get(symbol_table, input[token - 2].name) % 3 = 0

\* ---------------------------------------------------------------------
\* C14 (label-based indexed operands): in the instruction just encoded, an
\* operand [Label l, sign, Number k] is emitted as off mod 4096, off being
\* k, or (0 - k) mod 65536 with the operand's carry set for Minus and
\* k # 0, whatever the address of l; an operand [Label l, sign, Register r]
\* is emitted as r * 4096 + off mod 4096, off being the address x of l, or
\* (0 - x) mod 65536 with the operand's carry set for Minus and x # 0.
C14_OperandOk(op, word, carryBit) ==
    (op.k = "RegisterIndexedDirect" /\ IsLabelOperand(op.base)) =>
        LET x == symbol_table[to_lowercase(op.base.v.l)]
            magnitude == IF op.offset.k = "Register" THEN x ELSE op.offset.v.n
            negated == op.operator = "Minus" /\ magnitude # 0
            off == IF negated THEN (0 - magnitude) % 65536 ELSE magnitude
            value == IF op.offset.k = "Register" THEN op.offset.r * 4096 ELSE 0
        IN  /\ word = value + (off % 4096)
            /\ carryBit = (IF negated THEN 1 ELSE 0)

C14_LabelIndexed ==
    JustEncoded =>
        /\ C14_OperandOk(input[token - 1].operand1, EncodedWord1,
                         (EncodedOpcodeWord \div 2048) % 2)
        /\ C14_OperandOk(input[token - 1].operand2, EncodedWord2,
                         (EncodedOpcodeWord \div 1024) % 2)

\* [a - r15] as operand 1 with a at address 1: register 15 over the low 12
\* bits of (0 - 1) mod 65536, carry 1 set.
C14_Witness ==
    /\ JustEncoded
    /\ input[token - 1].operand1 =
          RegisterIndexedDirect(ImmediateValue(Label("a")), "Minus", Register(15))
    /\ symbol_table["a"] = 1
    /\ EncodedWord1 = 15 * 4096 + 4095
    /\ (EncodedOpcodeWord \div 2048) % 2 = 1

\* ============================================================ tokenizer
\* Bytes are numbers, a string is a sequence of bytes.

\* How far read_position is followed past the end of the input
MaxOverrun == 2

\* How many pieces a source text is made of
MaxChunks == 3

is_ascii_alphanumeric(c) == c \in (48..57) \cup (65..90) \cup (97..122)
is_ascii_control(c) == c \in (0..31) \cup {127}
is_ascii_whitespace(c) == c \in {9, 10, 12, 13, 32}
is_ascii_hexdigit(c) == c \in (48..57) \cup (65..70) \cup (97..102)
is_ascii_digit(c) == c \in 48..57
to_ascii_lowercase(c) == IF c \in 65..90 THEN c + 32 ELSE c
to_ascii_uppercase(c) == IF c \in 97..122 THEN c - 32 ELSE c
ToLowercase(s) == [i \in 1..Len(s) |-> to_ascii_lowercase(s[i])]
ToUppercase(s) == [i \in 1..Len(s) |-> to_ascii_uppercase(s[i])]

\* enum Token
TokenEOF == [kind |-> "EOF"]
TokenInvalid == [kind |-> "Invalid"]
TokenComment == [kind |-> "Comment"]
TokenBotInfo(info) == [kind |-> "BotInfo", info |-> info]
TokenIdent(s) == [kind |-> "Ident", ident |-> s]
TokenNumber(n) == [kind |-> "Number", val |-> n]
TokenRegister(n) == [kind |-> "Register", val |-> n]
TokenStackPointer == [kind |-> "StackPointer"]
TokenInstruction(t) == [kind |-> "Instruction", instruction_type |-> t]
TokenPunctuation ==
    [c \in {58, 44, 91, 93, 123, 125, 43, 45} |->
        [kind |-> CASE c = 58 -> "Colon" [] c = 44 -> "Comma"
                    [] c = 91 -> "OpenBracket" [] c = 93 -> "CloseBracket"
                    [] c = 123 -> "OpenCurly" [] c = 125 -> "CloseCurly"
                    [] c = 43 -> "Plus" [] c = 45 -> "Minus"]]

\* The instruction names next_token matches the upper-cased identifier with
InstructionName ==
    [NOP |-> <<78, 79, 80>>,
     MOV |-> <<77, 79, 86>>,
     PUSH |-> <<80, 85, 83, 72>>,
     POP |-> <<80, 79, 80>>,
     CALL |-> <<67, 65, 76, 76>>,
     RET |-> <<82, 69, 84>>,
     JMP |-> <<74, 77, 80>>,
     JL |-> <<74, 76>>,
     JLE |-> <<74, 76, 69>>,
     JG |-> <<74, 71>>,
     JGE |-> <<74, 71, 69>>,
     JE |-> <<74, 69>>,
     JNE |-> <<74, 78, 69>>,
     JS |-> <<74, 83>>,
     JNS |-> <<74, 78, 83>>,
     ADD |-> <<65, 68, 68>>,
     SUB |-> <<83, 85, 66>>,
     MULT |-> <<77, 85, 76, 84>>,
     DIV |-> <<68, 73, 86>>,
     MOD |-> <<77, 79, 68>>,
     AND |-> <<65, 78, 68>>,
     OR |-> <<79, 82>>,
     XOR |-> <<88, 79, 82>>,
     CMP |-> <<67, 77, 80>>,
     TEST |-> <<84, 69, 83, 84>>,
     GETXY |-> <<71, 69, 84, 88, 89>>,
     ENERGY |-> <<69, 78, 69, 82, 71, 89>>,
     TRAVEL |-> <<84, 82, 65, 86, 69, 76>>,
     SHL |-> <<83, 72, 76>>,
     SHR |-> <<83, 72, 82>>,
     SENSE |-> <<83, 69, 78, 83, 69>>,
     EAT |-> <<69, 65, 84>>,
     RAND |-> <<82, 65, 78, 68>>,
     RELEASE |-> <<82, 69, 76, 69, 65, 83, 69>>,
     CHARGE |-> <<67, 72, 65, 82, 71, 69>>,
     POKE |-> <<80, 79, 75, 69>>,
     PEEK |-> <<80, 69, 69, 75>>,
     CKSUM |-> <<67, 75, 83, 85, 77>>]

\* read_char.  Past the end of the input read_position only grows and
\* nothing but the comparison with input.len() reads it, so its values past
\* Len(input) + MaxOverrun are folded back to Len(input) + 1 (usize would
\* take 2^64 reads to overflow).
read_char(t) ==
    [t EXCEPT !.char = IF t.read_position >= Len(t.input) THEN 0
                       ELSE t.input[t.read_position + 1],
              !.position = t.read_position,
              !.read_position = IF t.read_position >= Len(t.input) + MaxOverrun
                                THEN Len(t.input) + 1
                                ELSE t.read_position + 1]

\* Tokenizer::new
NewTokenizer(text) ==
    read_char([position |-> 0, read_position |-> 0, char |-> 0,
               input |-> text, preread |-> FALSE])

\* Value of a string of digits in a radix (digits 0-9, a-f, A-F)
DigitValue(c) ==
    IF c \in 48..57 THEN c - 48 ELSE IF c \in 97..102 THEN c - 87 ELSE c - 55

RECURSIVE RadixValue(_, _)
RadixValue(s, radix) ==
    IF s = <<>> THEN 0
    ELSE RadixValue(SubSeq(s, 1, Len(s) - 1), radix) * radix + DigitValue(s[Len(s)])

\* str::parse::<u16> on a string of letters, digits and underscores
ParseU16(s) ==
    IF s # <<>> /\ (\A i \in 1..Len(s) : is_ascii_digit(s[i]))
       /\ RadixValue(s, 10) < WordModulus
    THEN [ok |-> TRUE, val |-> RadixValue(s, 10)]
    ELSE [ok |-> FALSE]

\* u16::from_str_radix(_, 16) on such a string
ParseHexU16(s) ==
    IF s # <<>> /\ (\A i \in 1..Len(s) : is_ascii_hexdigit(s[i]))
       /\ RadixValue(s, 16) < WordModulus
    THEN [ok |-> TRUE, val |-> RadixValue(s, 16)]
    ELSE [ok |-> FALSE]

StartsWith0x(s) == Len(s) >= 2 /\ s[1] = 48 /\ s[2] = 120

\* num.replace("0x", "")
RECURSIVE Replace0x(_)
Replace0x(s) ==
    IF s = <<>> THEN <<>>
    ELSE IF StartsWith0x(s) THEN Replace0x(SubSeq(s, 3, Len(s)))
    ELSE <<s[1]>> \o Replace0x(Tail(s))

\* The token read_int makes of the slice input[pos..position]
IntToken(num) ==
    LET parsed == IF StartsWith0x(num) THEN ParseHexU16(Replace0x(num))
                  ELSE ParseU16(num)
    IN  IF parsed.ok THEN TokenNumber(parsed.val) ELSE TokenInvalid

\* split(", ") of the bot info
RECURSIVE Split(_, _)
Split(s, current) ==
    IF s = <<>> THEN <<current>>
    ELSE IF Len(s) >= 2 /\ s[1] = 44 /\ s[2] = 32
         THEN <<current>> \o Split(SubSeq(s, 3, Len(s)), <<>>)
    ELSE Split(Tail(s), Append(current, s[1]))

\* Source texts: up to MaxChunks pieces out of "info", ";", "/", a newline,
\* a space, ",", "1", "r" and "or"
Chunks ==
    {<<105, 110, 102, 111>>, <<59>>, <<47>>, <<10>>, <<32>>, <<44>>, <<49>>,
     <<114>>, <<111, 114>>}

RECURSIVE Texts(_)
Texts(n) ==
    IF n = 0 THEN {<<>>}
    ELSE Texts(n - 1) \cup {s \o c : s \in Texts(n - 1), c \in Chunks}

\* The compiler while the tokenizer runs: not yet built
NotCompiling ==
    /\ input = <<EOF>>
    /\ symbol_table = label_to_address(<<EOF>>)
    /\ output = ZeroImage
    /\ instruction = EOF
    /\ position = 0
    /\ read_position = 1
    /\ pc = "ready"
    /\ token = 1
    /\ bytecode = <<>>
    /\ instruction_pointer = 0
    /\ fatal = "none"

\* Tokenizer::new(text) and the entry of tokenize: let mut tokens = Vec::new()
TokenizerInit ==
    /\ \E text \in Texts(MaxChunks) : tokenizer = NewTokenizer(text)
    /\ tokens = <<>>
    /\ ident = <<>>
    /\ bot_info = <<>>
    /\ pos = 0
    /\ at = "tokenize"
    /\ NotCompiling

\* next_token returns a token to tokenize, which pushes it
Return(tok) ==
    /\ tokens' = Append(tokens, tok)
    /\ at' = "tokenize"

\* tokenize: while self.char != 0 { tokens.push(self.next_token()) }, then
\* the EOF pushed unless the last token is one
tokenize ==
    /\ at = "tokenize"
    /\ IF tokenizer.char # 0
       THEN at' = "skip_whitespace" /\ UNCHANGED tokens
       ELSE /\ at' = "returned"
            /\ tokens' = IF tokens # <<>> /\ tokens[Len(tokens)] = TokenEOF
                         THEN tokens ELSE Append(tokens, TokenEOF)
    /\ UNCHANGED <<tokenizer, ident, bot_info, pos, compiler, output, pc, token,
                   bytecode, instruction_pointer, fatal>>

\* skip_whitespace, one turn of its loop, and self.preread = false behind it
skip_whitespace ==
    /\ at = "skip_whitespace"
    /\ IF is_ascii_whitespace(tokenizer.char)
       THEN tokenizer' = read_char(tokenizer) /\ UNCHANGED at
       ELSE tokenizer' = [tokenizer EXCEPT !.preread = FALSE] /\ at' = "match"
    /\ UNCHANGED <<tokens, ident, bot_info, pos, compiler, output, pc, token,
                   bytecode, instruction_pointer, fatal>>

\* next_token: match self.char, and for the arms that read nothing more the
\* read_char behind the match
next_token ==
    /\ at = "match"
    /\ LET char == tokenizer.char
       IN  IF char \in {47, 59}
           THEN at' = "read_comment" /\ UNCHANGED <<tokenizer, tokens, ident, pos>>
           ELSE IF is_ascii_digit(char)
           THEN /\ at' = "read_int"
                /\ pos' = tokenizer.position
                /\ UNCHANGED <<tokenizer, tokens, ident>>
           ELSE IF char \in (97..122) \cup (65..90) \cup {95}
           THEN /\ at' = "read_ident"
                /\ ident' = <<>>
                /\ UNCHANGED <<tokenizer, tokens, pos>>
           ELSE /\ Return(IF char \in DOMAIN TokenPunctuation THEN TokenPunctuation[char]
                          ELSE IF char = 0 THEN TokenEOF
                          ELSE TokenInvalid)
                /\ tokenizer' = read_char(tokenizer)
                /\ UNCHANGED <<ident, pos>>
    /\ UNCHANGED <<bot_info, compiler, output, pc, token, bytecode,
                   instruction_pointer, fatal>>

\* read_comment, one turn of its loop, or its return and the read_char
\* behind the match
read_comment ==
    /\ at = "read_comment"
    /\ IF tokenizer.char # 10
       THEN tokenizer' = read_char(tokenizer) /\ UNCHANGED <<tokens, at>>
       ELSE tokenizer' = read_char(tokenizer) /\ Return(TokenComment)
    /\ UNCHANGED <<ident, bot_info, pos, compiler, output, pc, token, bytecode,
                   instruction_pointer, fatal>>

\* read_int, one turn of its loop, or its return with preread set
read_int ==
    /\ at = "read_int"
    /\ IF is_ascii_hexdigit(tokenizer.char) \/ to_ascii_lowercase(tokenizer.char) = 120
       THEN tokenizer' = read_char(tokenizer) /\ UNCHANGED <<tokens, at>>
       ELSE /\ tokenizer' = [tokenizer EXCEPT !.preread = TRUE]
            /\ Return(IntToken(SubSeq(tokenizer.input, pos + 1, tokenizer.position)))
    /\ UNCHANGED <<ident, bot_info, pos, compiler, output, pc, token, bytecode,
                   instruction_pointer, fatal>>

\* The register an identifier names: r followed by a number 0..13 or 15
IsRegister(name) ==
    /\ ToLowercase(name)[1] = 114
    /\ ParseU16(Tail(name)).ok
    /\ ParseU16(Tail(name)).val \in (0..13) \cup {15}

\* read_ident, one turn of its loop, or what next_token makes of the
\* identifier it returns
read_ident ==
    /\ at = "read_ident"
    /\ IF is_ascii_alphanumeric(tokenizer.char) \/ tokenizer.char = 95
       THEN /\ ident' = Append(ident, tokenizer.char)
            /\ tokenizer' = read_char(tokenizer)
            /\ UNCHANGED <<tokens, bot_info, at>>
       ELSE /\ UNCHANGED <<tokenizer, ident>>
            /\ IF IsRegister(ident)
               THEN Return(TokenRegister(ParseU16(Tail(ident)).val)) /\ UNCHANGED bot_info
               ELSE IF ToLowercase(ident) = <<105, 110, 102, 111>>
               THEN at' = "read_bot_info" /\ bot_info' = <<>> /\ UNCHANGED tokens
               ELSE IF ToLowercase(ident) = <<115, 112>>
               THEN Return(TokenStackPointer) /\ UNCHANGED bot_info
               ELSE IF \E t \in InstructionType : InstructionName[t] = ToUppercase(ident)
               THEN /\ Return(TokenInstruction(
                        CHOOSE t \in InstructionType : InstructionName[t] = ToUppercase(ident)))
                    /\ UNCHANGED bot_info
               ELSE Return(TokenIdent(ident)) /\ UNCHANGED bot_info
    /\ UNCHANGED <<pos, compiler, output, pc, token, bytecode,
                   instruction_pointer, fatal>>

\* read_bot_info, one turn of its first loop (up to an alphanumeric byte)
read_bot_info ==
    /\ at = "read_bot_info"
    /\ IF ~is_ascii_alphanumeric(tokenizer.char)
       THEN tokenizer' = read_char(tokenizer) /\ UNCHANGED at
       ELSE at' = "read_bot_info_text" /\ UNCHANGED tokenizer
    /\ UNCHANGED <<tokens, ident, bot_info, pos, compiler, output, pc, token,
                   bytecode, instruction_pointer, fatal>>

\* read_bot_info, one turn of its second loop (up to a control byte), or
\* its return
read_bot_info_text ==
    /\ at = "read_bot_info_text"
    /\ IF ~is_ascii_control(tokenizer.char)
       THEN /\ bot_info' = Append(bot_info, tokenizer.char)
            /\ tokenizer' = read_char(tokenizer)
            /\ UNCHANGED <<tokens, at>>
       ELSE /\ Return(TokenBotInfo(Split(bot_info, <<>>)))
            /\ UNCHANGED <<tokenizer, bot_info>>
    /\ UNCHANGED <<ident, pos, compiler, output, pc, token, bytecode,
                   instruction_pointer, fatal>>

TokenizerNext ==
    \/ tokenize
    \/ skip_whitespace
    \/ next_token
    \/ read_comment
    \/ read_int
    \/ read_ident
    \/ read_bot_info
    \/ read_bot_info_text

\* The tokenizer runs in one thread that is never suspended: it takes its
\* next step whenever it has one.
TokenizerSpec == TokenizerInit /\ [][TokenizerNext]_vars /\ WF_vars(TokenizerNext)

\* ---------------------------------------------------------------------
\* C15 (tokenizer termination) as claimed: for every source text tokenize
\* eventually returns, and the list it returns ends with the EOF token.
C15_TokenizeTerminates ==
    <>(at = "returned" /\ tokens # <<>> /\ tokens[Len(tokens)] = TokenEOF)

====
